---- MODULE Spec2Model ----
(***************************************************************************)
(* Model of the dynamic angular detectors provider                         *)
(* (package angulardetectorsprovider, type Dynamic): an in-memory snapshot *)
(* of detectors guarded by a sync.RWMutex, refreshed from a remote         *)
(* endpoint by a background loop (Run) and restored from a durable store   *)
(* at construction (ProvideDynamic).                                       *)
(***************************************************************************)
EXTENDS Integers, Sequences, FiniteSets, TLC

\* ------------------------------------------------------------------------
\* Bounds
\* ------------------------------------------------------------------------
\* Number of model time units in one hour.
Hour == 2
\* Last instant of the model clock.
MaxTime == 5
\* Calls an external task makes to updateDetectors / setDetectorsFromCache.
MaxExtCalls == 2
\* Longest RuleSet handed to the batch conversion when checked on its own.
MaxLen == 3

\* backgroundJobInterval = time.Hour * 1
backgroundJobInterval == Hour * 1

\* ------------------------------------------------------------------------
\* Data: rule records (GCOMPattern), rule sets (GCOMPatterns), detectors
\* ------------------------------------------------------------------------
None == "none"
Nil == "nil"

Names == {"a", "b"}
Kinds == {"known", "unknown"}
\* A GCOMPattern: a name, a kind discriminator, and whether its payload is
\* well formed for that kind.
GCOMPattern == [name : Names, kind : Kinds, wf : BOOLEAN]

errUnknownPatternType == "errUnknownPatternType"
errMalformed == "errMalformed"

\* pattern.angularDetector(): a detector for a well-formed record of a known
\* kind, errUnknownPatternType for an unknown kind, another error otherwise.
\* A detector is identified by the name of the record it was compiled from.
angularDetector(pattern) ==
    IF pattern.kind = "unknown"
    THEN [ad |-> Nil, err |-> errUnknownPatternType]
    ELSE IF ~pattern.wf
         THEN [ad |-> Nil, err |-> errMalformed]
         ELSE [ad |-> pattern.name, err |-> Nil]

\* errors.Join(finalErr, err): the joined error lists every error, in order.
\* The nil error is the empty list.
errorsJoin(finalErr, e) == Append(finalErr, e)

\* SkipsRecord without the special case of errUnknownPatternType.
SkipsNoRecord(err) == FALSE

\* if errors.Is(err, errUnknownPatternType) { continue }
SkipsRecord(err) == err = errUnknownPatternType

\* The body of the range loop of patternsToDetectors from record i on, with
\* the locals finalErr and detectors.
RECURSIVE convertLoop(_, _, _, _)
convertLoop(patterns, i, finalErr, detectors) ==
    IF i > Len(patterns)
    THEN [finalErr |-> finalErr, detectors |-> detectors]
    ELSE LET res == angularDetector(patterns[i]) IN
         IF res.err # Nil
         THEN IF SkipsRecord(res.err)
              THEN convertLoop(patterns, i + 1, finalErr, detectors)
              ELSE convertLoop(patterns, i + 1,
                               errorsJoin(finalErr, [name |-> patterns[i].name, at |-> i]),
                               Append(detectors, res.ad))
         ELSE convertLoop(patterns, i + 1, finalErr, Append(detectors, res.ad))

\* convertResult returning the detectors built so far along with the error.
convertResultPartial(loop) == [detectors |-> loop.detectors, err |-> loop.finalErr]

\* What patternsToDetectors returns from the loop's locals: (nil, finalErr)
\* when an error was accumulated, (detectors, nil) otherwise.
convertResult(loop) ==
    IF loop.finalErr # <<>>
    THEN [detectors |-> <<>>, err |-> loop.finalErr]
    ELSE [detectors |-> loop.detectors, err |-> <<>>]

patternsToDetectors(patterns) == convertResult(convertLoop(patterns, 1, <<>>, <<>>))

\* ------------------------------------------------------------------------
\* The remote endpoint and the durable store (angularpatternsstore.Service)
\* ------------------------------------------------------------------------
okA == [name |-> "a", kind |-> "known", wf |-> TRUE]
okB == [name |-> "b", kind |-> "known", wf |-> TRUE]
unk == [name |-> "a", kind |-> "unknown", wf |-> TRUE]
bad == [name |-> "b", kind |-> "known", wf |-> FALSE]

\* RuleSets the remote endpoint may answer with.
RemoteRuleSets == { <<okA>>, <<okB, unk>>, <<bad, okA>> }
\* RuleSets a previous process may have left in the store.
StoredRuleSets == { <<okB, okA>>, <<bad>> }

\* The store keeps the JSON encoding of the patterns; a stored value that is
\* not the encoding of any GCOMPatterns does not decode.
Garbage == <<"garbage">>
jsonMarshal(patterns) == <<"json", patterns>>
jsonUnmarshal(raw) ==
    IF raw[1] = "json" THEN [patterns |-> raw[2], err |-> Nil]
                       ELSE [patterns |-> <<>>, err |-> "json unmarshal"]

\* The zero time.Time, far in the past.
ZeroTime == 0 - (2 * backgroundJobInterval)

EmptyStore == [present |-> FALSE, raw |-> Garbage, lastUpdated |-> ZeroTime]
InitialStores ==
    {EmptyStore} \cup
    [present : {TRUE},
     raw : {jsonMarshal(rs) : rs \in StoredRuleSets} \cup {Garbage},
     lastUpdated : {-1, 0}]

\* store.Set(ctx, patterns) when it succeeds at time t: the value and the
\* last-updated timestamp advance together.
storeSet(st, patterns, t) ==
    [present |-> TRUE, raw |-> jsonMarshal(patterns), lastUpdated |-> t]

\* ------------------------------------------------------------------------
\* Processes
\* ------------------------------------------------------------------------
\* "main" runs ProvideDynamic, "run" runs the background service Run, the
\* tasks are any other goroutines of the package calling updateDetectors or
\* setDetectorsFromCache on the instance.
Tasks == {"t1", "t2"}
Writers == {"main", "run"} \cup Tasks
Readers == {"r1", "r2"}
Procs == Writers \cup Readers

\* The locals of a call: patterns and newDetectors of updateDetectors;
\* rawCached, ok and getErr (whether Get's err is non-nil) of
\* setDetectorsFromCache; err, the error the call returns (None until it is
\* decided, Nil for the nil error).  failed is the step of updateDetectors whose
\* err was non-nil, setCalled whether store.Set was called, and entry the store
\* and the snapshot as they were when the call acquired the lock.
NoLocals == [patterns |-> <<>>, newDetectors |-> <<>>, rawCached |-> Garbage,
             ok |-> FALSE, getErr |-> FALSE, err |-> None,
             failed |-> None, setCalled |-> FALSE,
             entry |-> [store |-> EmptyStore, detectors |-> <<>>]]

VARIABLES
    enabled,        \* features.IsEnabled(FlagPluginsDynamicAngularDetectionPatterns)
    store,          \* d.store
    detectors,      \* d.detectors
    muxW,           \* d.mux: the holder of the exclusive lock, or None
    muxR,           \* d.mux: the holders of the shared lock
    pc,             \* position of every process
    loc,            \* locals of updateDetectors / setDetectorsFromCache
    rv,             \* r of ProvideDetectors, per reader
    extCalls,       \* calls made so far by every task
    now,            \* the clock
    asynctimerchan, \* whether the runtime's timer channels are buffered
    ticker,         \* the time.Ticker of Run
    tickerC,        \* ticks buffered in ticker.C
    firstTick,      \* ticks buffered in firstTick
    tick,           \* the channel Run selects on
    ctxDone,        \* whether Run's context is cancelled
    run,            \* locals of Run and its observations
    convIn,         \* argument of a stand-alone patternsToDetectors call
    convOut,        \* its result
    callErr,        \* err of ProvideDynamic and of Run, and ProvideDynamic's result
    installs,       \* number of replacements of d.detectors made so far
    seen            \* number of the replacement each observed reader last read

cacheVars == <<enabled, store, detectors, muxW, muxR, pc, loc, rv, extCalls>>
schedVars == <<now, asynctimerchan, ticker, tickerC, firstTick, tick, ctxDone, run>>
convVars == <<convIn, convOut>>
obsVars == <<callErr, installs, seen>>
vars == <<cacheVars, schedVars, convVars, obsVars>>

NoResult == [done |-> FALSE, detectors |-> <<>>, err |-> <<>>]
NoTicker == [active |-> FALSE, next |-> 0, period |-> 0]
\* lastUpdate is Run's local; ret is what Run returned; the other fields record
\* when Run computed the first delay (initAt), how many cycles it fired (0, 1,
\* or 2 for more), when the first and the latest fired (firstAt, firedAt), how
\* long after the latest ticker.Reset(backgroundJobInterval) the latest one
\* fired (waited) and when that Reset happened (resetAt).
\* getErr is whether GetLastUpdated failed, and failures how many cycles in a
\* row have returned an error (0, 1, or 2 for more).
NoRun == [lastUpdate |-> 0, initAt |-> -1, fired |-> 0, firstAt |-> -1,
          firedAt |-> -1, waited |-> -1, resetAt |-> -1, ret |-> None,
          getErr |-> FALSE, failures |-> 0]

\* callErr.main is the err ProvideDynamic got from setDetectorsFromCache and
\* callErr.run the err Run got from updateDetectors (None outside the if
\* statement); callErr.provide is the error ProvideDynamic returned.
\* The readers in observed are those whose reads are numbered in seen.
InitObs(observed) ==
    /\ callErr = [main |-> None, run |-> None, provide |-> None]
    /\ installs = 0
    /\ seen = [r \in observed |-> 0]

InitCache ==
    /\ enabled \in BOOLEAN
    /\ store \in InitialStores
    /\ detectors = <<>>
    /\ muxW = None
    /\ muxR = {}
    /\ pc = [p \in Procs |-> IF p = "main" THEN "new"
                             ELSE IF p = "run" THEN "run_idle"
                             ELSE IF p \in Tasks THEN "idle" ELSE "r_idle"]
    /\ loc = [p \in Writers |-> NoLocals]
    /\ rv = [r \in Readers |-> <<>>]
    /\ extCalls = [t \in Tasks |-> 0]

InitSched ==
    /\ now = 0
    /\ asynctimerchan \in BOOLEAN
    /\ ticker = NoTicker
    /\ tickerC = 0
    /\ firstTick = 0
    /\ tick = Nil
    /\ ctxDone = FALSE
    /\ run = NoRun

Init ==
    /\ InitCache
    /\ InitObs({})
    /\ store.lastUpdated # -1
    /\ InitSched
    /\ asynctimerchan
    /\ convIn = <<>>
    /\ convOut = NoResult

Constructed == pc["main"] = "constructed"

\* The caller's position after updateDetectors / setDetectorsFromCache returns.
RetPc(p) == IF p = "main" THEN "pd_ret" ELSE IF p = "run" THEN "run_reset" ELSE "idle"

\* ------------------------------------------------------------------------
\* d.mux (sync.RWMutex)
\* ------------------------------------------------------------------------
\* muxLock taking the lock whether or not another writer has it.
muxLockUnguarded(p, from, to) ==
    /\ pc[p] = from
    /\ muxW' = p
    /\ pc' = [pc EXCEPT ![p] = to]
    /\ UNCHANGED <<enabled, store, detectors, muxR, loc, rv, extCalls>>
    /\ UNCHANGED <<schedVars, convVars>>
    /\ UNCHANGED obsVars

\* Lock, first half: the writer takes the writers' mutex and announces itself;
\* from here on new readers wait.
muxLock(p, from, to) ==
    /\ pc[p] = from
    /\ muxW = None
    /\ muxW' = p
    /\ pc' = [pc EXCEPT ![p] = to]
    /\ UNCHANGED <<enabled, store, detectors, muxR, loc, rv, extCalls>>
    /\ UNCHANGED <<schedVars, convVars>>
    /\ UNCHANGED obsVars

\* Lock, second half: it returns once the active readers have departed.
muxLocked(p, from, to) ==
    /\ pc[p] = from
    /\ muxW = p
    /\ muxR = {}
    /\ pc' = [pc EXCEPT ![p] = to]
    /\ loc' = [loc EXCEPT ![p].entry = [store |-> store, detectors |-> detectors]]
    /\ UNCHANGED <<enabled, store, detectors, muxW, muxR, rv, extCalls>>
    /\ UNCHANGED <<schedVars, convVars>>
    /\ UNCHANGED obsVars

\* muxUnlock as an Unlock written before the final return only, not deferred:
\* the error returns leave the lock held.
muxUnlockOnSuccessOnly(p, from) ==
    /\ pc[p] = from
    /\ muxW = p
    /\ muxW' = IF loc[p].err = Nil THEN None ELSE muxW
    /\ pc' = [pc EXCEPT ![p] = RetPc(p)]
    /\ loc' = [loc EXCEPT ![p] = NoLocals]
    /\ callErr' = IF p \in {"main", "run"} THEN [callErr EXCEPT ![p] = loc[p].err]
                                           ELSE callErr
    /\ UNCHANGED <<enabled, store, detectors, muxR, rv, extCalls>>
    /\ UNCHANGED <<schedVars, convVars>>
    /\ UNCHANGED <<installs, seen>>

\* defer d.mux.Unlock(), then the return to the caller.
muxUnlock(p, from) ==
    /\ pc[p] = from
    /\ muxW = p
    /\ muxW' = None
    /\ pc' = [pc EXCEPT ![p] = RetPc(p)]
    /\ loc' = [loc EXCEPT ![p] = NoLocals]
    /\ callErr' = IF p \in {"main", "run"} THEN [callErr EXCEPT ![p] = loc[p].err]
                                           ELSE callErr
    /\ UNCHANGED <<enabled, store, detectors, muxR, rv, extCalls>>
    /\ UNCHANGED <<schedVars, convVars>>
    /\ UNCHANGED <<installs, seen>>

\* ------------------------------------------------------------------------
\* updateDetectors
\* ------------------------------------------------------------------------
upd_Lock(p) == muxLock(p, "upd_lock", "upd_wait")
upd_Locked(p) == muxLocked(p, "upd_wait", "upd_fetch")

\* patterns, err := d.fetch(ctx)
upd_Fetch(p) ==
    /\ pc[p] = "upd_fetch"
    /\ \/ /\ loc' = [loc EXCEPT ![p].err = "fetch", ![p].failed = "fetch"]
          /\ pc' = [pc EXCEPT ![p] = "upd_unlock"]
       \/ \E rs \in RemoteRuleSets :
            /\ loc' = [loc EXCEPT ![p].patterns = rs]
            /\ pc' = [pc EXCEPT ![p] = "upd_convert"]
    /\ UNCHANGED <<enabled, store, detectors, muxW, muxR, rv, extCalls>>
    /\ UNCHANGED <<schedVars, convVars>>
    /\ UNCHANGED obsVars

\* afterConvert without the return on a conversion error.
afterConvertNoReturn(res) == "upd_set"

\* Where updateDetectors goes after patternsToDetectors returned res.
afterConvert(res) == IF res.err # <<>> THEN "upd_unlock" ELSE "upd_set"

\* newDetectors, err := d.patternsToDetectors(patterns)
upd_Convert(p) ==
    /\ pc[p] = "upd_convert"
    /\ LET res == patternsToDetectors(loc[p].patterns) IN
         /\ loc' = [loc EXCEPT ![p].newDetectors = res.detectors,
                               ![p].failed = IF res.err # <<>> THEN "convert" ELSE None,
                               ![p].err = IF afterConvert(res) = "upd_unlock"
                                          THEN "patterns convert to detectors"
                                          ELSE None]
         /\ pc' = [pc EXCEPT ![p] = afterConvert(res)]
    /\ UNCHANGED <<enabled, store, detectors, muxW, muxR, rv, extCalls>>
    /\ UNCHANGED <<schedVars, convVars>>
    /\ UNCHANGED obsVars

\* afterSet without the return on a store error.
afterSetNoReturn(ok) == "upd_swap"

\* Where updateDetectors goes after store.Set succeeded or failed.
afterSet(ok) == IF ok THEN "upd_swap" ELSE "upd_unlock"

\* if err := d.store.Set(ctx, patterns); err != nil { return ... }
\* A Set that fails leaves the store as it was.
upd_Set(p) ==
    /\ pc[p] = "upd_set"
    /\ \E ok \in BOOLEAN :
         /\ store' = IF ok THEN storeSet(store, loc[p].patterns, now) ELSE store
         /\ loc' = [loc EXCEPT ![p].setCalled = TRUE,
                               ![p].failed = IF ok THEN loc[p].failed ELSE "set",
                               ![p].err = IF afterSet(ok) = "upd_unlock"
                                          THEN "store set" ELSE None]
         /\ pc' = [pc EXCEPT ![p] = afterSet(ok)]
    /\ UNCHANGED <<enabled, detectors, muxW, muxR, rv, extCalls>>
    /\ UNCHANGED <<schedVars, convVars>>
    /\ UNCHANGED obsVars

\* swap that leaves the old snapshot in place.
swapKeepsOld(old, new) == old

\* swap that appends to the snapshot in place.
swapAppends(old, new) == old \o new

\* The value d.detectors = newDetectors leaves in d.detectors.
swap(old, new) == new

\* d.detectors = newDetectors; return nil
upd_Swap(p) ==
    /\ pc[p] = "upd_swap"
    /\ detectors' = swap(detectors, loc[p].newDetectors)
    /\ loc' = [loc EXCEPT ![p].err = Nil]
    /\ pc' = [pc EXCEPT ![p] = "upd_unlock"]
    /\ installs' = installs + 1
    /\ UNCHANGED <<enabled, store, muxW, muxR, rv, extCalls>>
    /\ UNCHANGED <<schedVars, convVars>>
    /\ UNCHANGED <<callErr, seen>>

upd_Unlock(p) == muxUnlock(p, "upd_unlock")

updateDetectors(p) ==
    \/ upd_Lock(p)
    \/ upd_Locked(p)
    \/ upd_Fetch(p)
    \/ upd_Convert(p)
    \/ upd_Set(p)
    \/ upd_Swap(p)
    \/ upd_Unlock(p)

\* ------------------------------------------------------------------------
\* setDetectorsFromCache
\* ------------------------------------------------------------------------
rst_Lock(p) == muxLock(p, "rst_lock", "rst_wait")
rst_Locked(p) == muxLocked(p, "rst_wait", "rst_get")

\* rawCached, ok, err := d.store.Get(ctx): the stored value and whether one is
\* present, or a failure, which the store may report with either value of ok.
rst_Get(p) ==
    /\ pc[p] = "rst_get"
    /\ \/ loc' = [loc EXCEPT ![p].rawCached = IF store.present THEN store.raw ELSE Garbage,
                             ![p].ok = store.present,
                             ![p].getErr = FALSE]
       \/ \E k \in BOOLEAN :
            loc' = [loc EXCEPT ![p].rawCached = Garbage, ![p].ok = k, ![p].getErr = TRUE]
    /\ pc' = [pc EXCEPT ![p] = "rst_apply"]
    /\ UNCHANGED <<enabled, store, detectors, muxW, muxR, rv, extCalls>>
    /\ UNCHANGED <<schedVars, convVars>>
    /\ UNCHANGED obsVars

\* The error setDetectorsFromCache returns for the locals l, Nil for none.
rstErr(l) ==
    IF ~l.ok THEN Nil
    ELSE IF l.getErr THEN "get cached value"
    ELSE IF jsonUnmarshal(l.rawCached).err # Nil THEN "json unmarshal"
    ELSE IF patternsToDetectors(jsonUnmarshal(l.rawCached).patterns).err # <<>>
         THEN "convert to detectors"
    ELSE Nil

\* rstAssigns with whatever Get returned used even when ok is false.
rstAssignsNotFound(l) == rstErr(l) = Nil

\* Whether setDetectorsFromCache reaches d.detectors = cachedDetectors.
rstAssigns(l) == l.ok /\ rstErr(l) = Nil

\* From "if !ok" to the return.
rst_Apply(p) ==
    /\ pc[p] = "rst_apply"
    /\ loc' = [loc EXCEPT ![p].err = rstErr(loc[p])]
    /\ detectors' = IF rstAssigns(loc[p])
                    THEN patternsToDetectors(jsonUnmarshal(loc[p].rawCached).patterns).detectors
                    ELSE detectors
    /\ pc' = [pc EXCEPT ![p] = "rst_unlock"]
    /\ installs' = IF rstAssigns(loc[p]) THEN installs + 1 ELSE installs
    /\ UNCHANGED <<enabled, store, muxW, muxR, rv, extCalls>>
    /\ UNCHANGED <<schedVars, convVars>>
    /\ UNCHANGED <<callErr, seen>>

rst_Unlock(p) == muxUnlock(p, "rst_unlock")

setDetectorsFromCache(p) ==
    \/ rst_Lock(p)
    \/ rst_Locked(p)
    \/ rst_Get(p)
    \/ rst_Apply(p)
    \/ rst_Unlock(p)

\* ------------------------------------------------------------------------
\* ProvideDynamic
\* ------------------------------------------------------------------------
\* IsDisabled
IsDisabled == ~enabled

\* pd_New going on to the restore whatever the feature flag says.
pd_NewAlwaysRestores ==
    /\ pc["main"] = "new"
    /\ pc' = [pc EXCEPT !["main"] = "rst_lock"]
    /\ UNCHANGED <<enabled, store, detectors, muxW, muxR, loc, rv, extCalls>>
    /\ UNCHANGED <<schedVars, convVars>>
    /\ UNCHANGED obsVars

\* Construction up to the restore: return at once when disabled.
pd_New ==
    /\ pc["main"] = "new"
    /\ pc' = [pc EXCEPT !["main"] = IF IsDisabled THEN "constructed" ELSE "rst_lock"]
    /\ callErr' = IF IsDisabled THEN [callErr EXCEPT !.provide = Nil] ELSE callErr
    /\ UNCHANGED <<enabled, store, detectors, muxW, muxR, loc, rv, extCalls>>
    /\ UNCHANGED <<schedVars, convVars>>
    /\ UNCHANGED <<installs, seen>>

\* pd_Return handing the restore's error to the caller.
pd_ReturnErr ==
    /\ pc["main"] = "pd_ret"
    /\ pc' = [pc EXCEPT !["main"] = "constructed"]
    /\ callErr' = [callErr EXCEPT !.main = None, !.provide = callErr.main]
    /\ UNCHANGED <<enabled, store, detectors, muxW, muxR, loc, rv, extCalls>>
    /\ UNCHANGED <<schedVars, convVars>>
    /\ UNCHANGED <<installs, seen>>

\* The restore's error is logged; return d, nil.
pd_Return ==
    /\ pc["main"] = "pd_ret"
    /\ pc' = [pc EXCEPT !["main"] = "constructed"]
    /\ callErr' = [callErr EXCEPT !.main = None, !.provide = Nil]
    /\ UNCHANGED <<enabled, store, detectors, muxW, muxR, loc, rv, extCalls>>
    /\ UNCHANGED <<schedVars, convVars>>
    /\ UNCHANGED <<installs, seen>>

ProvideDynamic == pd_New \/ pd_Return

\* ------------------------------------------------------------------------
\* ProvideDetectors
\* ------------------------------------------------------------------------
\* A caller enters ProvideDetectors of the constructed instance.
pdt_Call(r) ==
    /\ pc[r] = "r_idle"
    /\ Constructed
    /\ pc' = [pc EXCEPT ![r] = "r_rlock"]
    /\ rv' = [rv EXCEPT ![r] = <<>>]
    /\ UNCHANGED <<enabled, store, detectors, muxW, muxR, loc, extCalls>>
    /\ UNCHANGED <<schedVars, convVars>>
    /\ UNCHANGED obsVars

\* pdt_RLock taking the lock exclusively (Lock in place of RLock).
pdt_LockExclusive(r) ==
    /\ pc[r] = "r_rlock"
    /\ muxW = None
    /\ muxR = {}
    /\ muxR' = muxR \cup {r}
    /\ pc' = [pc EXCEPT ![r] = "r_read"]
    /\ UNCHANGED <<enabled, store, detectors, muxW, loc, rv, extCalls>>
    /\ UNCHANGED <<schedVars, convVars>>
    /\ UNCHANGED obsVars

\* d.mux.RLock(): waits while a writer holds or has asked for the lock.
pdt_RLock(r) ==
    /\ pc[r] = "r_rlock"
    /\ muxW = None
    /\ muxR' = muxR \cup {r}
    /\ pc' = [pc EXCEPT ![r] = "r_read"]
    /\ UNCHANGED <<enabled, store, detectors, muxW, loc, rv, extCalls>>
    /\ UNCHANGED <<schedVars, convVars>>
    /\ UNCHANGED obsVars

\* pdt_Read returning the snapshot the instance started with, as a read of
\* a stale copy of d.detectors would.
pdt_ReadStale(r) ==
    /\ pc[r] = "r_read"
    /\ rv' = [rv EXCEPT ![r] = <<>>]
    /\ seen' = IF r \in DOMAIN seen THEN [seen EXCEPT ![r] = 0] ELSE seen
    /\ pc' = [pc EXCEPT ![r] = "r_runlock"]
    /\ UNCHANGED <<enabled, store, detectors, muxW, muxR, loc, extCalls>>
    /\ UNCHANGED <<schedVars, convVars>>
    /\ UNCHANGED <<callErr, installs>>

\* r := d.detectors
pdt_Read(r) ==
    /\ pc[r] = "r_read"
    /\ rv' = [rv EXCEPT ![r] = detectors]
    /\ seen' = IF r \in DOMAIN seen THEN [seen EXCEPT ![r] = installs] ELSE seen
    /\ pc' = [pc EXCEPT ![r] = "r_runlock"]
    /\ UNCHANGED <<enabled, store, detectors, muxW, muxR, loc, extCalls>>
    /\ UNCHANGED <<schedVars, convVars>>
    /\ UNCHANGED <<callErr, installs>>

\* d.mux.RUnlock(); return r
pdt_RUnlock(r) ==
    /\ pc[r] = "r_runlock"
    /\ muxR' = muxR \ {r}
    /\ pc' = [pc EXCEPT ![r] = "r_idle"]
    /\ UNCHANGED <<enabled, store, detectors, muxW, loc, rv, extCalls>>
    /\ UNCHANGED <<schedVars, convVars>>
    /\ UNCHANGED obsVars

ProvideDetectors(r) ==
    \/ pdt_Call(r)
    \/ pdt_RLock(r)
    \/ pdt_Read(r)
    \/ pdt_RUnlock(r)

\* ------------------------------------------------------------------------
\* Another task of the package calling into the constructed instance
\* ------------------------------------------------------------------------
task_Call(t) ==
    /\ pc[t] = "idle"
    /\ Constructed
    /\ extCalls[t] < MaxExtCalls
    /\ extCalls' = [extCalls EXCEPT ![t] = extCalls[t] + 1]
    /\ \E to \in {"upd_lock", "rst_lock"} : pc' = [pc EXCEPT ![t] = to]
    /\ UNCHANGED <<enabled, store, detectors, muxW, muxR, loc, rv>>
    /\ UNCHANGED <<schedVars, convVars>>
    /\ UNCHANGED obsVars

\* ------------------------------------------------------------------------
\* time.Ticker
\* ------------------------------------------------------------------------
\* time.NewTicker(d) / ticker.Reset(d) at time t: the next tick is d from t.
tickerEvery(d, t) == [active |-> TRUE, next |-> t + d, period |-> d]

\* What ticker.Reset leaves in ticker.C: a tick already buffered stays there
\* when timer channels are asynchronous (Go before 1.23, or
\* GODEBUG=asynctimerchan=1) and is discarded otherwise.
afterReset(c) == IF asynctimerchan THEN c ELSE 0

\* The runtime sends a tick on ticker.C, dropping it when one is buffered.
sendTime(c) == 1

\* nextRunUntil measured to the last update itself, the interval left out.
nextRunUntilLastUpdate(lastUpdate, t) == lastUpdate - t

\* nextRunUntil := time.Until(lastUpdate.Add(backgroundJobInterval)) at time t
nextRunUntil(lastUpdate, t) == (lastUpdate + backgroundJobInterval) - t

\* Whether the channel Run selects on has a value to receive.
TickReady ==
    \/ tick = "firstTick" /\ firstTick > 0
    \/ tick = "ticker.C" /\ tickerC > 0

\* ------------------------------------------------------------------------
\* Run
\* ------------------------------------------------------------------------
\* The service manager starts Run on the constructed instance.
run_Start ==
    /\ pc["run"] = "run_idle"
    /\ Constructed
    /\ pc' = [pc EXCEPT !["run"] = "run_getlu"]
    /\ UNCHANGED <<enabled, store, detectors, muxW, muxR, loc, rv, extCalls>>
    /\ UNCHANGED <<schedVars, convVars>>
    /\ UNCHANGED obsVars

\* run_GetLastUpdated going on with the zero time when the store fails.
run_GetLastUpdatedIgnoresErr ==
    /\ pc["run"] = "run_getlu"
    /\ \/ run' = [run EXCEPT !.lastUpdate = ZeroTime, !.getErr = TRUE]
       \/ run' = [run EXCEPT !.lastUpdate = store.lastUpdated]
    /\ pc' = [pc EXCEPT !["run"] = "run_init"]
    /\ UNCHANGED <<enabled, store, detectors, muxW, muxR, loc, rv, extCalls>>
    /\ UNCHANGED <<now, asynctimerchan, ticker, tickerC, firstTick, tick, ctxDone>>
    /\ UNCHANGED convVars
    /\ UNCHANGED obsVars

\* lastUpdate, err := d.store.GetLastUpdated(ctx)
run_GetLastUpdated ==
    /\ pc["run"] = "run_getlu"
    /\ \/ /\ run' = [run EXCEPT !.ret = "get last updated", !.getErr = TRUE]
          /\ pc' = [pc EXCEPT !["run"] = "run_done"]
       \/ /\ run' = [run EXCEPT !.lastUpdate = store.lastUpdated]
          /\ pc' = [pc EXCEPT !["run"] = "run_init"]
    /\ UNCHANGED <<enabled, store, detectors, muxW, muxR, loc, rv, extCalls>>
    /\ UNCHANGED <<now, asynctimerchan, ticker, tickerC, firstTick, tick, ctxDone>>
    /\ UNCHANGED convVars
    /\ UNCHANGED obsVars

\* From time.Until to the loop: the ticker is created, and either firstTick
\* holds a tick at once or the ticker is reset to the remaining delay.
run_Init ==
    /\ pc["run"] = "run_init"
    /\ IF nextRunUntil(run.lastUpdate, now) <= 0
       THEN /\ ticker' = tickerEvery(backgroundJobInterval, now)
            /\ firstTick' = 1
            /\ tick' = "firstTick"
       ELSE /\ ticker' = tickerEvery(nextRunUntil(run.lastUpdate, now), now)
            /\ firstTick' = firstTick
            /\ tick' = "ticker.C"
    /\ run' = [run EXCEPT !.initAt = now]
    /\ pc' = [pc EXCEPT !["run"] = "run_select"]
    /\ UNCHANGED <<enabled, store, detectors, muxW, muxR, loc, rv, extCalls>>
    /\ UNCHANGED <<now, asynctimerchan, tickerC, ctxDone>>
    /\ UNCHANGED convVars
    /\ UNCHANGED obsVars

\* case <-tick: a cycle fires and updateDetectors is called.
run_Fire ==
    /\ pc["run"] = "run_select"
    /\ TickReady
    /\ IF tick = "firstTick"
       THEN firstTick' = firstTick - 1 /\ tickerC' = tickerC
       ELSE tickerC' = tickerC - 1 /\ firstTick' = firstTick
    /\ run' = [run EXCEPT !.fired = IF run.fired < 2 THEN run.fired + 1 ELSE 2,
                          !.firstAt = IF run.fired = 0 THEN now ELSE run.firstAt,
                          !.firedAt = now,
                          !.waited = IF run.fired = 0 THEN -1 ELSE now - run.resetAt]
    /\ pc' = [pc EXCEPT !["run"] = "upd_lock"]
    /\ UNCHANGED <<enabled, store, detectors, muxW, muxR, loc, rv, extCalls>>
    /\ UNCHANGED <<now, asynctimerchan, ticker, tick, ctxDone>>
    /\ UNCHANGED convVars
    /\ UNCHANGED obsVars

\* run_Done taken as soon as the context is cancelled, also while
\* updateDetectors awaits the fetch or the store write.
run_DoneMidCycle ==
    /\ pc["run"] \in {"run_select", "upd_fetch", "upd_set"}
    /\ ctxDone
    /\ run' = [run EXCEPT !.ret = "context canceled"]
    /\ ticker' = [ticker EXCEPT !.active = FALSE]
    /\ pc' = [pc EXCEPT !["run"] = "run_done"]
    /\ UNCHANGED <<enabled, store, detectors, muxW, muxR, loc, rv, extCalls>>
    /\ UNCHANGED <<now, asynctimerchan, tickerC, firstTick, tick, ctxDone>>
    /\ UNCHANGED convVars
    /\ UNCHANGED obsVars

\* run_Done returning nil in place of ctx.Err().
run_DoneNil ==
    /\ pc["run"] = "run_select"
    /\ ctxDone
    /\ run' = [run EXCEPT !.ret = Nil]
    /\ ticker' = [ticker EXCEPT !.active = FALSE]
    /\ pc' = [pc EXCEPT !["run"] = "run_done"]
    /\ UNCHANGED <<enabled, store, detectors, muxW, muxR, loc, rv, extCalls>>
    /\ UNCHANGED <<now, asynctimerchan, tickerC, firstTick, tick, ctxDone>>
    /\ UNCHANGED convVars
    /\ UNCHANGED obsVars

\* case <-ctx.Done(): return ctx.Err(), and the deferred ticker.Stop().
run_Done ==
    /\ pc["run"] = "run_select"
    /\ ctxDone
    /\ run' = [run EXCEPT !.ret = "context canceled"]
    /\ ticker' = [ticker EXCEPT !.active = FALSE]
    /\ pc' = [pc EXCEPT !["run"] = "run_done"]
    /\ UNCHANGED <<enabled, store, detectors, muxW, muxR, loc, rv, extCalls>>
    /\ UNCHANGED <<now, asynctimerchan, tickerC, firstTick, tick, ctxDone>>
    /\ UNCHANGED convVars
    /\ UNCHANGED obsVars

\* After updateDetectors returned (its error is logged):
\* ticker.Reset(backgroundJobInterval); tick = ticker.C
run_Reset ==
    /\ pc["run"] = "run_reset"
    /\ ticker' = tickerEvery(backgroundJobInterval, now)
    /\ tickerC' = afterReset(tickerC)
    /\ tick' = "ticker.C"
    /\ run' = [run EXCEPT !.resetAt = now,
                          !.failures = IF callErr.run = Nil THEN 0
                                       ELSE IF run.failures < 2 THEN run.failures + 1
                                       ELSE 2]
    /\ callErr' = [callErr EXCEPT !.run = None]
    /\ pc' = [pc EXCEPT !["run"] = "run_select"]
    /\ UNCHANGED <<enabled, store, detectors, muxW, muxR, loc, rv, extCalls>>
    /\ UNCHANGED <<now, asynctimerchan, firstTick, ctxDone>>
    /\ UNCHANGED convVars
    /\ UNCHANGED <<installs, seen>>

Run ==
    \/ run_Start
    \/ run_GetLastUpdated
    \/ run_Init
    \/ run_Fire
    \/ run_Done
    \/ run_Reset

\* The owner of Run's context cancels it.
Cancel ==
    /\ ~ctxDone
    /\ ctxDone' = TRUE
    /\ UNCHANGED <<now, asynctimerchan, ticker, tickerC, firstTick, tick, run>>
    /\ UNCHANGED <<cacheVars, convVars, obsVars>>

\* One unit of time passes; a ticker that is due sends its tick.  A select
\* with a channel ready to receive is taken before the clock moves on.
Tick ==
    /\ now < MaxTime
    /\ ~(pc["run"] = "run_select" /\ (TickReady \/ ctxDone))
    /\ now' = now + 1
    /\ IF ticker.active /\ ticker.next = now + 1
       THEN /\ tickerC' = sendTime(tickerC)
            /\ ticker' = [ticker EXCEPT !.next = ticker.next + ticker.period]
       ELSE UNCHANGED <<ticker, tickerC>>
    /\ UNCHANGED <<asynctimerchan, firstTick, tick, ctxDone, run>>
    /\ UNCHANGED <<cacheVars, convVars, obsVars>>

\* ------------------------------------------------------------------------
\* Specifications
\* ------------------------------------------------------------------------
\* The cache under concurrent readers and writing tasks.
Next ==
    \/ ProvideDynamic
    \/ setDetectorsFromCache("main")
    \/ \E t \in Tasks : task_Call(t) \/ updateDetectors(t) \/ setDetectorsFromCache(t)
    \/ \E r \in Readers : ProvideDetectors(r)

Spec == Init /\ [][Next]_vars

\* The same, with every reader's reads numbered by the replacement read.
InitOrder ==
    /\ InitCache
    /\ InitObs(Readers)
    /\ store.lastUpdated # -1
    /\ InitSched
    /\ asynctimerchan
    /\ convIn = <<>>
    /\ convOut = NoResult

SpecOrder == InitOrder /\ [][Next]_vars

\* The background service on the clock, with one reader.
InitRun ==
    /\ InitCache
    /\ InitObs({})
    /\ store.present => store.raw = jsonMarshal(<<okB, okA>>)
    /\ InitSched
    /\ convIn = <<>>
    /\ convOut = NoResult

NextRun ==
    \/ ProvideDynamic
    \/ setDetectorsFromCache("main")
    \/ Run
    \/ updateDetectors("run")
    \/ ProvideDetectors("r1")
    \/ Cancel
    \/ Tick

SpecRun == InitRun /\ [][NextRun]_vars

\* Every goroutine keeps running, a cycle's I/O returns, and a select with
\* several ready cases picks each of them sooner or later (the runtime
\* chooses among ready cases uniformly at random).
FairnessRun ==
    /\ WF_vars(ProvideDynamic)
    /\ WF_vars(setDetectorsFromCache("main"))
    /\ WF_vars(run_Start \/ run_GetLastUpdated \/ run_Init \/ run_Reset)
    /\ WF_vars(updateDetectors("run"))
    /\ SF_vars(run_Done)
    /\ WF_vars(pdt_Read("r1") \/ pdt_RUnlock("r1"))

LiveSpecRun == SpecRun /\ FairnessRun

\* The provider with the scheduling it runs under: every step of a call is
\* eventually taken (each fetch and each store call returns), and a reader
\* waiting in RLock is admitted when the lock is released (sync.RWMutex wakes
\* the blocked readers on Unlock before it admits the next writer).
Fairness ==
    /\ WF_vars(ProvideDynamic)
    /\ \A p \in Writers : WF_vars(updateDetectors(p)) /\ WF_vars(setDetectorsFromCache(p))
    /\ \A r \in Readers : SF_vars(pdt_RLock(r)) /\ WF_vars(pdt_Read(r) \/ pdt_RUnlock(r))

LiveSpec == Spec /\ Fairness

\* ------------------------------------------------------------------------
\* patternsToDetectors on its own, over every RuleSet up to MaxLen records
\* ------------------------------------------------------------------------
RuleSetsUpTo(n) == UNION { [1..k -> GCOMPattern] : k \in 0..n }

InitConv ==
    /\ InitCache
    /\ InitObs({})
    /\ enabled
    /\ store = EmptyStore
    /\ InitSched
    /\ asynctimerchan
    /\ convIn \in RuleSetsUpTo(MaxLen)
    /\ convOut = NoResult

conv_Call ==
    /\ ~convOut.done
    /\ convOut' = [done |-> TRUE,
                   detectors |-> patternsToDetectors(convIn).detectors,
                   err |-> patternsToDetectors(convIn).err]
    /\ UNCHANGED <<convIn, cacheVars, schedVars, obsVars>>

NextConv == conv_Call

SpecConv == InitConv /\ [][NextConv]_vars

\* ------------------------------------------------------------------------
\* Properties of the refresh cycle
\* ------------------------------------------------------------------------
\* The positions at which a call holds the exclusive lock.
UpdLocked == {"upd_fetch", "upd_convert", "upd_set", "upd_swap", "upd_unlock"}
RstLocked == {"rst_get", "rst_apply", "rst_unlock"}
\* The positions at which a call holds or has asked for the exclusive lock.
LockPcs == {"upd_wait", "rst_wait"} \cup UpdLocked \cup RstLocked

\* A call of updateDetectors about to release the lock and return.
Returning(p) == pc[p] = "upd_unlock"

\* C1: when a refresh cycle releases the exclusive lock, either the store
\* holds the fetched RuleSet and the snapshot is the detectors compiled from
\* it, or the store and the snapshot are as they were when the lock was
\* acquired; and no reader reads the snapshot between the store write and the
\* snapshot replacement.
C1_CycleAtomic ==
    /\ \A p \in Writers : Returning(p) =>
         \/ /\ loc[p].err = Nil
            /\ store.present
            /\ store.raw = jsonMarshal(loc[p].patterns)
            /\ detectors = patternsToDetectors(loc[p].patterns).detectors
         \/ /\ loc[p].err \notin {Nil, None}
            /\ store = loc[p].entry.store
            /\ detectors = loc[p].entry.detectors
    /\ \A r \in Readers : \A p \in Writers :
         ~(pc[r] \in {"r_read", "r_runlock"} /\ pc[p] = "upd_swap")

\* A successful cycle that changed both the store and the snapshot.
C1_Witness ==
    \E p \in Writers :
        /\ Returning(p)
        /\ loc[p].err = Nil
        /\ store # loc[p].entry.store
        /\ detectors # loc[p].entry.detectors

\* C2: when store.Set fails after a successful fetch and conversion, the
\* cycle returns an error and the snapshot is the one it found.
C2_SetFailureKeepsSnapshot ==
    \A p \in Writers : (Returning(p) /\ loc[p].failed = "set") =>
        /\ loc[p].err = "store set"
        /\ detectors = loc[p].entry.detectors

\* A cycle whose store.Set failed while the cache held a restored snapshot
\* different from the newly compiled detectors.
C2_Witness ==
    \E p \in Writers :
        /\ Returning(p)
        /\ loc[p].failed = "set"
        /\ detectors # <<>>
        /\ loc[p].newDetectors # detectors

\* C3: when the fetch or the conversion fails, the cycle returns an error
\* without calling store.Set, the store and the snapshot are as it found them,
\* and the lock is held by nobody who has left the call.
C3_FailedCycleInvisible ==
    /\ \A p \in Writers : (Returning(p) /\ loc[p].failed \in {"fetch", "convert"}) =>
         /\ loc[p].err \in {"fetch", "patterns convert to detectors"}
         /\ ~loc[p].setCalled
         /\ store = loc[p].entry.store
         /\ detectors = loc[p].entry.detectors
    /\ \A p \in Writers : muxW = p => pc[p] \in LockPcs

\* A cycle whose fetched RuleSet failed conversion, about to return.
C3_Witness ==
    \E p \in Writers : Returning(p) /\ loc[p].failed = "convert"

\* The detector sequences one successful conversion pass can produce.
CompletePasses ==
    { patternsToDetectors(rs).detectors :
        rs \in { x \in RemoteRuleSets \cup StoredRuleSets : patternsToDetectors(x).err = <<>> } }

\* C4: every value ProvideDetectors returns is the initial empty snapshot or
\* the complete result of one successful conversion pass.
C4_ReadsAreCompletePasses ==
    \A r \in Readers : rv[r] \in {<<>>} \cup CompletePasses

\* A reader returning a populated snapshot while a refresh cycle waits for the
\* lock and another reader is inside its read.
C4_Witness ==
    \E r \in Readers : \E q \in Readers \ {r} : \E p \in Writers :
        /\ pc[r] = "r_runlock"
        /\ rv[r] # <<>>
        /\ pc[q] = "r_read"
        /\ pc[p] = "upd_wait"

\* ------------------------------------------------------------------------
\* Properties of ProvideDetectors
\* ------------------------------------------------------------------------
\* A call of ProvideDetectors that has started and not yet taken the lock.
Started(r) == pc[r] = "r_rlock"

\* The positions at which a call awaits the network or the store.
AwaitingIO == {"upd_fetch", "upd_set", "rst_get"}

\* C5 as stated: a started read can proceed at once also while a refresh cycle
\* or a restore awaits the remote fetch or a store call.
C5_ReadNeverWaits ==
    \A r \in Readers :
        (Started(r) /\ \E p \in Writers : pc[p] \in AwaitingIO) => ENABLED pdt_RLock(r)

\* C5, amended: a started read waits for nothing but d.mux; it can proceed at
\* once exactly when no updateDetectors or setDetectorsFromCache call holds or
\* has asked for the exclusive lock, and it waits while one does, the whole
\* fetch and store write of a refresh cycle included.
C5_ReadWaitsOnlyForTheLock ==
    \A r \in Readers : Started(r) =>
        (ENABLED pdt_RLock(r) <=> \A p \in Writers : pc[p] \notin LockPcs)

\* A started read while a refresh cycle awaits its store write.
C5_Witness ==
    \E r \in Readers : \E p \in Writers : Started(r) /\ pc[p] = "upd_set"

\* C6: every ProvideDetectors call that starts returns, whatever fails inside
\* the refresh cycles and restores.
C6_ReadReturns ==
    \A r \in Readers : Started(r) ~> (pc[r] = "r_idle")

\* A started read waiting while a refresh cycle whose fetch failed still holds
\* the lock.
C6_Witness ==
    \E r \in Readers : \E p \in Writers :
        /\ Started(r)
        /\ Returning(p)
        /\ loc[p].failed = "fetch"

\* ------------------------------------------------------------------------
\* Properties of patternsToDetectors
\* ------------------------------------------------------------------------
Compiles(pattern) == pattern.kind = "known" /\ pattern.wf
UnknownKind(pattern) == pattern.kind = "unknown"
Malformed(pattern) == pattern.kind = "known" /\ ~pattern.wf

\* The numbers of the set S in increasing order.
RECURSIVE Ascending(_)
Ascending(S) ==
    IF S = {} THEN <<>>
    ELSE LET m == CHOOSE x \in S : \A y \in S : x <= y
         IN <<m>> \o Ascending(S \ {m})

\* C7: for a RuleSet whose records all compile or are of an unknown kind, the
\* conversion returns no error and one detector per compiling record, in
\* RuleSet order.
C7_UnknownKindsSkipped ==
    (convOut.done /\ \A i \in 1..Len(convIn) : Compiles(convIn[i]) \/ UnknownKind(convIn[i])) =>
        LET at == Ascending({i \in 1..Len(convIn) : Compiles(convIn[i])}) IN
        /\ convOut.err = <<>>
        /\ convOut.detectors = [k \in 1..Len(at) |-> convIn[at[k]].name]

\* One record of an unknown kind between two different compiling records.
C7_Witness ==
    /\ convOut.done
    /\ Len(convIn) = 3
    /\ Compiles(convIn[1]) /\ UnknownKind(convIn[2]) /\ Compiles(convIn[3])
    /\ convIn[1].name # convIn[3].name
    /\ Len(convOut.detectors) = 2

\* C8: for a RuleSet with a malformed record of a known kind, wherever it
\* stands, the conversion returns no detectors and an error that joins the
\* error of every malformed record of the RuleSet.
C8_MalformedFailsBatch ==
    (convOut.done /\ \E i \in 1..Len(convIn) : Malformed(convIn[i])) =>
        LET at == Ascending({i \in 1..Len(convIn) : Malformed(convIn[i])}) IN
        /\ convOut.detectors = <<>>
        /\ convOut.err # <<>>
        /\ convOut.err = [k \in 1..Len(at) |-> [name |-> convIn[at[k]].name, at |-> at[k]]]

\* A malformed record first, then a compiling record, then another malformed
\* one.
C8_Witness ==
    /\ convOut.done
    /\ Len(convIn) = 3
    /\ Malformed(convIn[1]) /\ Compiles(convIn[2]) /\ Malformed(convIn[3])
    /\ Len(convOut.err) = 2

\* ------------------------------------------------------------------------
\* Properties of Run
\* ------------------------------------------------------------------------
Max(a, b) == IF a >= b THEN a ELSE b

\* Run is waiting for its first firing.
BeforeFirstFiring == pc["run"] = "run_select" /\ run.fired = 0

\* C9: the first cycle fires at the later of the time Run computed the delay
\* and LastUpdated + interval: at once when LastUpdated + interval is not after
\* that time, and otherwise not before LastUpdated + interval.
C9_FirstFiring ==
    /\ (BeforeFirstFiring /\ run.lastUpdate + backgroundJobInterval <= run.initAt) =>
         TickReady /\ now = run.initAt
    /\ (BeforeFirstFiring /\ run.lastUpdate + backgroundJobInterval > run.initAt) =>
         (TickReady <=> now = run.lastUpdate + backgroundJobInterval)
    /\ run.fired >= 1 =>
         /\ run.firstAt = Max(run.initAt, run.lastUpdate + backgroundJobInterval)
         /\ run.firedAt >= run.lastUpdate + backgroundJobInterval

\* The first cycle has fired after a wait, the store having been updated less
\* than an interval before Run started.
C9_Witness ==
    /\ run.fired = 1
    /\ run.firstAt > run.initAt
    /\ run.initAt > run.lastUpdate

\* C10: every firing after the first comes a full interval after the
\* ticker.Reset(backgroundJobInterval) that ended the cycle before it.
C10_FullIntervalAfterEveryCycle ==
    run.fired >= 2 => run.waited >= backgroundJobInterval

\* Where Run is while a cycle it fired is under way, up to the ticker.Reset.
CyclePcs == {"upd_lock", "upd_wait", "upd_fetch", "upd_convert", "upd_set",
             "upd_swap", "upd_unlock", "run_reset"}

\* After a cycle that returned an error Run is back at the select, on
\* ticker.C with the ticker running at the fixed interval, and it has
\* returned only if its context is cancelled.
FailedCycleBackToWaiting ==
    run.failures >= 1 =>
        /\ pc["run"] \in CyclePcs \cup {"run_select", "run_done"}
        /\ pc["run"] = "run_done" => ctxDone /\ run.ret = "context canceled"
        /\ pc["run"] = "run_select" =>
              /\ tick = "ticker.C"
              /\ ticker = tickerEvery(backgroundJobInterval, run.resetAt)
                   \/ TickReady

\* C11: cycles that return an error, however many in a row, neither make Run
\* return nor stop the loop: Run goes back to waiting, and the cycle after a
\* failed one fires a full interval after the ticker.Reset that followed it.
C11_FailedCyclesKeepSchedule ==
    /\ FailedCycleBackToWaiting
    /\ (run.failures >= 1 /\ pc["run"] \in CyclePcs) =>
          run.waited >= backgroundJobInterval

\* C12: once the loop has started Run returns only when its context is
\* cancelled, and what it returns then is the context's error; and once the
\* context is cancelled Run returns.
C12_RunReturnsOnCancel ==
    /\ []((pc["run"] = "run_done" /\ run.initAt >= 0) =>
            (ctxDone /\ run.ret = "context canceled"))
    /\ (ctxDone ~> pc["run"] = "run_done")

\* Run has returned on cancellation after a cycle that it fired.
C12_Witness ==
    /\ pc["run"] = "run_done"
    /\ ctxDone
    /\ run.fired >= 1

\* C13: when GetLastUpdated fails Run returns that error, wrapped, before the
\* ticker exists: no cycle ever fires, nothing is fetched, and from then on
\* neither the store nor d.detectors changes.
C13_GetLastUpdatedFailureIsFatal ==
    /\ [](run.getErr =>
            /\ pc["run"] = "run_done"
            /\ run.ret = "get last updated"
            /\ run.initAt = -1
            /\ run.fired = 0
            /\ ticker = NoTicker
            /\ loc["run"] = NoLocals)
    /\ [][run.getErr => (store' = store /\ detectors' = detectors)]_vars

\* Run has returned the store's error and time has gone by since.
C13_Witness ==
    /\ run.getErr
    /\ pc["run"] = "run_done"
    /\ now > 0
    /\ ~ctxDone

\* The store read failed, or the value read does not decode or does not
\* compile, for the locals l of a restore.
RestoreFails(l) ==
    \/ l.getErr
    \/ /\ l.ok
       /\ \/ jsonUnmarshal(l.rawCached).err # Nil
          \/ patternsToDetectors(jsonUnmarshal(l.rawCached).patterns).err # <<>>

\* C14: a restore whose store read fails, whatever the store reports about
\* presence, or whose stored value fails to decode or to compile, returns a
\* non-nil error and leaves d.detectors as it found it.
C14_RestoreFailureReturnsError ==
    \A p \in Writers :
        (pc[p] = "rst_unlock" /\ RestoreFails(loc[p])) =>
            /\ loc[p].err # Nil
            /\ detectors = loc[p].entry.detectors

\* C15: a restore that is told no value is present returns nil and leaves
\* d.detectors as it found it; and no restore, however it ends, fetches from
\* the remote or writes the store.
C15_RestoreOfAbsentValue ==
    \A p \in Writers :
        pc[p] = "rst_unlock" =>
            /\ ~loc[p].ok => (loc[p].err = Nil /\ detectors = loc[p].entry.detectors)
            /\ store = loc[p].entry.store
            /\ ~loc[p].setCalled
            /\ loc[p].patterns = <<>> /\ loc[p].failed = None

\* A restore is about to return after the store reported, without an error,
\* that it holds no value.
C15_Witness ==
    \E p \in Writers :
        /\ pc[p] = "rst_unlock"
        /\ ~loc[p].ok
        /\ ~loc[p].getErr
        /\ ~store.present

C17_CycleHoldsLockThroughout ==
    \A p \in Writers : pc[p] \in UpdLocked =>
        /\ muxW = p
        /\ muxR = {}
        /\ \A r \in Readers : pc[r] \notin {"r_read", "r_runlock"}
        /\ \A q \in Writers \ {p} : pc[q] \notin UpdLocked \cup RstLocked

\* One task awaits its store write while another has called updateDetectors
\* and a reader has called ProvideDetectors.
C17_Witness ==
    \E p \in Tasks : \E q \in Tasks \ {p} : \E r \in Readers :
        /\ pc[p] = "upd_set"
        /\ pc[q] = "upd_lock"
        /\ Started(r)

\* C18: with the replacements of d.detectors numbered in the order they are
\* made, what a read returns is the latest replacement made before it, and
\* the numbers one reader reads never go down; so no two readers see two
\* replacements in opposite orders.
C18_ReplacementsSeenInOrder ==
    /\ [](\A r \in DOMAIN seen :
            /\ seen[r] <= installs
            /\ pc[r] = "r_runlock" => (seen[r] = installs /\ rv[r] = detectors))
    /\ [][\A r \in DOMAIN seen : seen'[r] >= seen[r]]_vars

\* Two replacements have been made; one reader has read the first and the
\* other the second.
C18_Witness ==
    /\ installs = 2
    /\ \E r1 \in DOMAIN seen : \E r2 \in DOMAIN seen : seen[r1] = 1 /\ seen[r2] = 2

\* C19: Run looks at the cancellation only in the select.  It returns from
\* nowhere else once the loop has started; a cycle under way when the context
\* is cancelled goes on step by step, its store write and its replacement of
\* d.detectors still possible, and reaches the select before Run returns.
C19_CancelOnlyBetweenCycles ==
    /\ [][(pc["run"] # "run_done" /\ pc'["run"] = "run_done") =>
             pc["run"] \in {"run_select", "run_getlu"}]_vars
    /\ [][(ctxDone /\ pc["run"] \in CyclePcs) =>
             pc'["run"] \in CyclePcs \cup {"run_select"}]_vars
    /\ []((ctxDone /\ pc["run"] = "upd_set") => ENABLED upd_Set("run"))
    /\ []((ctxDone /\ pc["run"] = "upd_swap") => ENABLED upd_Swap("run"))
    /\ ((ctxDone /\ pc["run"] \in CyclePcs) ~> pc["run"] = "run_select")

\* The context is cancelled while a cycle is about to write the store.
C19_Witness == ctxDone /\ pc["run"] = "upd_set"

\* C20: with the feature flag disabled ProvideDynamic never enters the
\* restore and never reads the store; d.detectors, and so what
\* ProvideDetectors returns, stays empty until a cycle fired by Run has
\* replaced it; and Run starts and fires its cycles whatever the flag says.
C20_DisabledSkipsRestoreOnly ==
    /\ ~enabled =>
          /\ pc["main"] \in {"new", "constructed"}
          /\ loc["main"] = NoLocals
          /\ callErr.main = None
          /\ installs = 0 =>
                (detectors = <<>> /\ (pc["r1"] = "r_runlock" => rv["r1"] = <<>>))
          /\ installs > 0 => run.fired >= 1
    /\ (pc["run"] = "run_idle" /\ Constructed) => ENABLED run_Start
    /\ (pc["run"] = "run_select" /\ TickReady) => ENABLED run_Fire

\* With the flag disabled a cycle fired by Run has replaced d.detectors and a
\* read has returned the new detectors.
C20_Witness ==
    /\ ~enabled
    /\ installs = 1
    /\ pc["r1"] = "r_runlock"
    /\ rv["r1"] = detectors
    /\ detectors # <<>>

====
